---- MODULE Spec2Model ----
(***************************************************************************)
(* Model of src/memory_map.rs: the fixed-capacity MemoryMap (new,          *)
(* add_region, sort, Deref/DerefMut view) and the conversion               *)
(* From<E820MemoryRegion> for MemoryRegion.                                *)
(*                                                                         *)
(* The array has 32 slots in the source; the model scales the capacity to  *)
(* Capacity slots, and addresses, lengths and type codes to small ranges.  *)
(* next_entry_index never exceeds the capacity, so its u64 width and the   *)
(* `as usize` cast of next_entry_index() never wrap and are not modelled.  *)
(* PhysAddr (crate x86_64) is opaque: an address is its raw number, and    *)
(* the modelled addresses are all valid physical addresses.                *)
(***************************************************************************)
EXTENDS Integers, Sequences, FiniteSets, Bags, TLC

\* ---- bounds of the model ----
Capacity == 3        \* stands for the 32 slots of `entries`
MaxAddr == 1         \* start_addr ranges over 0..MaxAddr
MaxLen == 1          \* len ranges up to MaxLen
MaxTypeCode == 6     \* E820 region_type codes range over 0..MaxTypeCode
MaxAttr == 1         \* acpi_extended_attributes ranges over 0..MaxAttr

\* enum MemoryRegionType
MemoryRegionType ==
    {"Usable", "InUse", "Reserved", "AcpiReclaimable", "AcpiNvs",
     "BadMemory", "Kernel", "PageTable", "Bootloader", "FrameZero"}

\* the classifications the catalog's callers use in the model
TypesUsed == {"Usable", "Reserved"}

\* the lengths of the regions handed to the catalog: the catalog reads len
\* only in the test len == 0, so a region is empty or of length MaxLen
Lens == {0, MaxLen}

\* struct MemoryRegion, over the modelled ranges
MemoryRegion ==
    [start_addr : 0..MaxAddr, len : Lens, region_type : TypesUsed]

\* struct E820MemoryRegion, over the modelled ranges
E820MemoryRegion ==
    [start_addr : 0..MaxAddr, len : 0..MaxLen,
     region_type : 0..MaxTypeCode, acpi_extended_attributes : 0..MaxAttr]

Slots == 0..(Capacity - 1)

NoRegion == [start_addr |-> 0, len |-> 0, region_type |-> "none"]
NoRecord ==
    [start_addr |-> 0, len |-> 0, region_type |-> 0,
     acpi_extended_attributes |-> 0]

NoCompare == [done |-> FALSE]

VARIABLES
    entries,            \* MemoryMap.entries, a function on Slots
    next_entry_index,   \* MemoryMap.next_entry_index
    fault,              \* "none", or the panic that aborted the program
    lastOp,             \* the operation that produced this state
    phase,              \* "appending": only add_region since new();
                        \* "sorted": those appends, then exactly one sort();
                        \* "other": anything else
    appended,           \* the regions appended since new(), while phase
                        \* is "appending" or "sorted"
    added,              \* the argument of the add_region call that
                        \* produced this state, when it returned
                        \* (NoRegion otherwise)
    record,             \* the E820 record handed to from()
    converted,          \* the MemoryRegion from() returned
    compared            \* the regions handed to the comparator of sort()
                        \* and the orderings it returned

vars ==
    <<entries, next_entry_index, fault, lastOp, phase, appended, added,
      record, converted, compared>>

\* ---- MemoryRegion ----

\* MemoryRegion::empty
empty == [start_addr |-> 0, len |-> 0, region_type |-> "Reserved"]

\* ---- MemoryMap ----

new_wrong == [entries |-> [i \in Slots |-> empty], next_entry_index |-> 1]

\* MemoryMap::new
new == [entries |-> [i \in Slots |-> empty], next_entry_index |-> 0]

\* Deref::deref: the slice entries[0..next_entry_index], as a sequence
deref(e, n) == [i \in 1..n |-> e[i - 1]]

deref_mut_whole(n) == Slots

\* DerefMut::deref_mut: the indices of the slice entries[0..next_index]
deref_mut(n) == 0..(n - 1)

view == deref(entries, next_entry_index)

add_region_overwrite(e, n, region) ==
    IF n >= Capacity
    THEN [entries |-> [e EXCEPT ![Capacity - 1] = region],
          next_entry_index |-> n, fault |-> "none"]
    ELSE [entries |-> [e EXCEPT ![n] = region],
          next_entry_index |-> n + 1, fault |-> "none"]

add_region_unchecked(e, n, region) ==
    [entries |-> IF n \in Slots THEN [e EXCEPT ![n] = region] ELSE e,
     next_entry_index |-> n + 1, fault |-> "none"]

add_region_front(e, n, region) ==
    IF n >= Capacity
    THEN [entries |-> e, next_entry_index |-> n,
          fault |-> "index out of bounds"]
    ELSE [entries |-> [i \in Slots |->
                          IF i = 0 THEN region
                          ELSE IF i <= n THEN e[i - 1] ELSE e[i]],
          next_entry_index |-> n + 1, fault |-> "none"]

add_region_no_increment(e, n, region) ==
    IF n >= Capacity
    THEN [entries |-> e, next_entry_index |-> n,
          fault |-> "index out of bounds"]
    ELSE [entries |-> [e EXCEPT ![n] = region],
          next_entry_index |-> n, fault |-> "none"]

\* MemoryMap::add_region: the indexing entries[next_entry_index] panics when
\* the index is out of bounds, before the store and before the increment
add_region(e, n, region) ==
    IF n >= Capacity
    THEN [entries |-> e, next_entry_index |-> n,
          fault |-> "index out of bounds"]
    ELSE [entries |-> [e EXCEPT ![n] = region],
          next_entry_index |-> n + 1, fault |-> "none"]

cmp_addr_only(r1, r2) ==
    IF r1.start_addr < r2.start_addr THEN "Less"
    ELSE IF r1.start_addr > r2.start_addr THEN "Greater"
    ELSE "Equal"

cmp_descending(r1, r2) ==
    IF r1.len = 0 THEN "Greater"
    ELSE IF r2.len = 0 THEN "Less"
    ELSE IF r1.start_addr > r2.start_addr THEN "Less"
    ELSE IF r1.start_addr < r2.start_addr THEN "Greater"
    ELSE "Equal"

\* the comparator closure of MemoryMap::sort; start_addr.cmp is the order
\* of the raw addresses
cmp(r1, r2) ==
    IF r1.len = 0 THEN "Greater"
    ELSE IF r2.len = 0 THEN "Less"
    ELSE IF r1.start_addr < r2.start_addr THEN "Less"
    ELSE IF r1.start_addr > r2.start_addr THEN "Greater"
    ELSE "Equal"

\* the permutations of the slot indices
SlotPerms == Permutations(Slots)

\* self.entries.sort_unstable_by(cmp): the whole array is reordered.  The
\* slice sort consults the comparator only through cmp(a, b) == Less, which
\* for this closure is a strict weak order (empty slots last, otherwise by
\* address), so the sort returns an ordered permutation of the array; it is
\* unstable, so any ordered permutation can be the result.
sort_unstable_by(e) ==
    { s \in { [i \in Slots |-> e[p[i]]] : p \in SlotPerms } :
        \A i, j \in Slots : i < j => cmp(s[j], s[i]) # "Less" }

None == -1

position_last(e) ==
    IF \E i \in Slots : e[i].len = 0
    THEN CHOOSE i \in Slots :
            e[i].len = 0 /\ \A j \in Slots : e[j].len = 0 => j <= i
    ELSE None

\* self.entries.iter().position(|r| r.len == 0)
position(e) ==
    IF \E i \in Slots : e[i].len = 0
    THEN CHOOSE i \in Slots :
            e[i].len = 0 /\ \A j \in Slots : e[j].len = 0 => i <= j
    ELSE None

sort_keep_index(e, n) ==
    { [entries |-> s, next_entry_index |-> n] : s \in sort_unstable_by(e) }

\* MemoryMap::sort: the outcomes of sorting the array and recomputing the
\* index (left as it is when no slot has len == 0)
sort(e, n) ==
    { [entries |-> s,
       next_entry_index |-> IF position(s) # None THEN position(s) ELSE n] :
      s \in sort_unstable_by(e) }

\* ---- firmware conversion ----

\* PhysAddr::new as used by the source: the address keeps its raw value
PhysAddr_new(addr) == addr

from_default(region) ==
    [fault |-> "none",
     region |-> [start_addr |-> PhysAddr_new(region.start_addr),
                 len |-> region.len,
                 region_type |->
                    CASE region.region_type = 1 -> "Usable"
                      [] region.region_type = 2 -> "Reserved"
                      [] region.region_type = 3 -> "AcpiReclaimable"
                      [] region.region_type = 4 -> "AcpiNvs"
                      [] region.region_type = 5 -> "BadMemory"
                      [] OTHER -> "Reserved"]]

from_shifted(region) ==
    IF region.region_type \in 1..5
    THEN [fault |-> "none",
          region |-> [start_addr |-> PhysAddr_new(region.start_addr),
                      len |-> region.len,
                      region_type |->
                         CASE region.region_type = 1 -> "Usable"
                           [] region.region_type = 2 -> "Reserved"
                           [] region.region_type = 3 -> "AcpiNvs"
                           [] region.region_type = 4 -> "AcpiReclaimable"
                           [] region.region_type = 5 -> "BadMemory"]]
    ELSE [fault |-> "invalid region type", region |-> NoRegion]

\* From<E820MemoryRegion> for MemoryRegion: the match panics on any code
\* outside 1..5 before a region is built
from(region) ==
    IF region.region_type \in 1..5
    THEN [fault |-> "none",
          region |-> [start_addr |-> PhysAddr_new(region.start_addr),
                      len |-> region.len,
                      region_type |->
                         CASE region.region_type = 1 -> "Usable"
                           [] region.region_type = 2 -> "Reserved"
                           [] region.region_type = 3 -> "AcpiReclaimable"
                           [] region.region_type = 4 -> "AcpiNvs"
                           [] region.region_type = 5 -> "BadMemory"]]
    ELSE [fault |-> "invalid region type", region |-> NoRegion]

\* ---- the catalog as a state machine ----

\* the state after MemoryMap::new()
Init ==
    /\ entries = new.entries
    /\ next_entry_index = new.next_entry_index
    /\ fault = "none"
    /\ lastOp = "new"
    /\ phase = "appending"
    /\ appended = <<>>
    /\ added = NoRegion
    /\ record = NoRecord
    /\ converted = NoRegion
    /\ compared = NoCompare

\* a call of add_region(region); a panic aborts the program
AddRegion(region) ==
    /\ fault = "none"
    /\ LET res == add_region(entries, next_entry_index, region) IN
        /\ entries' = res.entries
        /\ next_entry_index' = res.next_entry_index
        /\ fault' = res.fault
        /\ phase' = IF res.fault # "none" \/ phase = "appending"
                    THEN phase ELSE "other"
        /\ appended' = IF res.fault # "none" THEN appended
                       ELSE IF phase = "appending"
                            THEN Append(appended, region) ELSE <<>>
        /\ added' = IF res.fault # "none" THEN NoRegion ELSE region
    /\ lastOp' = "add_region"
    /\ UNCHANGED <<record, converted, compared>>

\* a call of sort(); lastOp tells a sort that directly follows a sort
Sort ==
    /\ fault = "none"
    /\ \E res \in sort(entries, next_entry_index) :
        /\ entries' = res.entries
        /\ next_entry_index' = res.next_entry_index
    /\ lastOp' = IF lastOp \in {"sort", "sort_again"}
                 THEN "sort_again" ELSE "sort"
    /\ phase' = IF phase = "appending" THEN "sorted" ELSE "other"
    /\ appended' = IF phase = "appending" THEN appended ELSE <<>>
    /\ added' = NoRegion
    /\ UNCHANGED <<fault, record, converted, compared>>

\* the writes to one field of a region: the field and its new value
FieldWrites ==
    ({"start_addr"} \X (0..MaxAddr))
        \cup ({"len"} \X Lens)
        \cup ({"region_type"} \X TypesUsed)

\* a write to one field of one element of the mutable view
EditElement(i, w) ==
    /\ fault = "none"
    /\ i \in deref_mut(next_entry_index)
    /\ entries' = [entries EXCEPT ![i] = [@ EXCEPT ![w[1]] = w[2]]]
    /\ lastOp' = "deref_mut"
    /\ phase' = "other"
    /\ appended' = <<>>
    /\ added' = NoRegion
    /\ UNCHANGED <<next_entry_index, fault, record, converted, compared>>

Next ==
    \/ \E region \in MemoryRegion : AddRegion(region)
    \/ Sort
    \/ \E i \in Slots, w \in FieldWrites : EditElement(i, w)

Spec == Init /\ [][Next]_vars

\* ---- the conversion, applied to every record of the modelled ranges ----

InitE820 ==
    /\ entries = new.entries
    /\ next_entry_index = new.next_entry_index
    /\ fault = "none"
    /\ lastOp = "new"
    /\ phase = "appending"
    /\ appended = <<>>
    /\ added = NoRegion
    /\ record \in E820MemoryRegion
    /\ converted = NoRegion
    /\ compared = NoCompare

\* MemoryRegion::from(record)
From ==
    /\ lastOp = "new"
    /\ fault = "none"
    /\ LET res == from(record) IN
        /\ converted' = res.region
        /\ fault' = res.fault
    /\ lastOp' = "from"
    /\ UNCHANGED <<entries, next_entry_index, phase, appended, added,
                   record, compared>>

NextE820 == From

SpecE820 == InitE820 /\ [][NextE820]_vars

\* ---- the comparator, applied to every triple of regions ----

InitCmp ==
    /\ entries = new.entries
    /\ next_entry_index = new.next_entry_index
    /\ fault = "none"
    /\ lastOp = "new"
    /\ phase = "appending"
    /\ appended = <<>>
    /\ added = NoRegion
    /\ record = NoRecord
    /\ converted = NoRegion
    /\ compared \in [r1 : MemoryRegion, r2 : MemoryRegion, r3 : MemoryRegion,
                     done : {FALSE}]

\* the calls of the comparator closure on the pairs of the three regions
Compare ==
    /\ ~compared.done
    /\ compared' =
          [r1 |-> compared.r1, r2 |-> compared.r2, r3 |-> compared.r3,
           done |-> TRUE,
           c11 |-> cmp(compared.r1, compared.r1),
           c12 |-> cmp(compared.r1, compared.r2),
           c21 |-> cmp(compared.r2, compared.r1),
           c23 |-> cmp(compared.r2, compared.r3),
           c13 |-> cmp(compared.r1, compared.r3)]
    /\ UNCHANGED <<entries, next_entry_index, fault, lastOp, phase, appended,
                   added, record, converted>>

NextCmp == Compare

SpecCmp == InitCmp /\ [][NextCmp]_vars

\* ---- definitions used by the properties ----

IsNonEmpty(r) == r.len > 0

\* the bag of the elements of a sequence
BagOfSeq(s) ==
    [x \in {s[i] : i \in DOMAIN s} |-> Cardinality({i \in DOMAIN s : s[i] = x})]

AfterSort == lastOp \in {"sort", "sort_again"}

\* the classification the firmware interface assigns to each type code
TypeOfCode(k) ==
    CASE k = 1 -> "Usable"
      [] k = 2 -> "Reserved"
      [] k = 3 -> "AcpiReclaimable"
      [] k = 4 -> "AcpiNvs"
      [] k = 5 -> "BadMemory"

\* Ordering::reverse
Reverse(o) ==
    CASE o = "Less" -> "Greater"
      [] o = "Greater" -> "Less"
      [] o = "Equal" -> "Equal"

\* ---- properties ----

\* C1: after appends to a new catalog followed by one sort(), the view holds,
\* as a multiset, exactly the appended regions with len > 0, and its length
\* is their number.
C1_SortKeepsNonEmptyRegions ==
    phase = "sorted" =>
        /\ BagOfSeq(view) = BagOfSeq(SelectSeq(appended, IsNonEmpty))
        /\ Len(view) = Len(SelectSeq(appended, IsNonEmpty))

\* a full catalog of non-empty regions, appended out of order, then sorted
C1_Witness ==
    /\ phase = "sorted"
    /\ Len(appended) = Capacity
    /\ \A i \in DOMAIN appended : appended[i].len > 0
    /\ appended[1].start_addr > appended[2].start_addr

\* C2: immediately after sort(), in any reachable state, every entry of the
\* view has len > 0 and the view is in non-decreasing start_addr order.
C2_ViewSortedAfterSort ==
    AfterSort =>
        /\ \A i \in DOMAIN view : view[i].len > 0
        /\ \A i, j \in DOMAIN view :
              i < j => view[i].start_addr <= view[j].start_addr

\* a sort after edits or a re-append, with two addresses in the view
C2_Witness ==
    /\ lastOp = "sort"
    /\ phase = "other"
    /\ Len(view) >= 2
    /\ view[1].start_addr < view[Len(view)].start_addr

\* C3: add_region on a full catalog faults and changes neither a slot nor
\* next_entry_index.
C3_AddRegionFullFaults ==
    [][(fault = "none" /\ next_entry_index = Capacity
        /\ lastOp' = "add_region")
       => /\ fault' = "index out of bounds"
          /\ entries' = entries
          /\ next_entry_index' = next_entry_index]_vars

\* the program aborted by an append to a full catalog
C3_Witness ==
    /\ lastOp = "add_region"
    /\ fault = "index out of bounds"
    /\ next_entry_index = Capacity
    /\ \A i \in Slots : entries[i].len > 0

\* C4: add_region(r) on a catalog that is not full appends r to the view:
\* the earlier entries keep position and value and the length grows by one;
\* hence after appends only, the view is the sequence of appended regions.
C4_AddRegionAppendsToView ==
    /\ [](phase = "appending" => view = appended)
    /\ [][(lastOp' = "add_region" /\ next_entry_index < Capacity) =>
            (fault' = "none" /\ view' = Append(view, added'))]_vars

\* an append after a sort or an edit, behind entries already in the view
C4_Witness ==
    /\ lastOp = "add_region"
    /\ fault = "none"
    /\ phase = "other"
    /\ Len(view) = Capacity
    /\ view[Len(view)].len = 0

C6_IndexWithinCapacity ==
    /\ next_entry_index \in 0..Capacity
    /\ deref_mut(next_entry_index) \subseteq Slots
    /\ DOMAIN view = 1..next_entry_index

\* an edit through the view of a full catalog
C6_Witness ==
    /\ next_entry_index = Capacity
    /\ lastOp = "deref_mut"

\* C7: a record with type code 1..5 converts to the region with the matching
\* classification and the record's start_addr and len, whatever its
\* extended attributes.
C7_ConversionOfKnownCodes ==
    (lastOp = "from" /\ record.region_type \in 1..5) =>
        /\ fault = "none"
        /\ converted.region_type = TypeOfCode(record.region_type)
        /\ converted.start_addr = record.start_addr
        /\ converted.len = record.len
        /\ \A a \in 0..MaxAttr :
              from([record EXCEPT !.acpi_extended_attributes = a]).region
                 = converted

\* a converted ACPI-reclaimable record with extended attributes set
C7_Witness ==
    /\ lastOp = "from"
    /\ record.region_type = 3
    /\ record.acpi_extended_attributes = 1
    /\ record.len > 0
    /\ converted.region_type = "AcpiReclaimable"

\* C8: a record with a type code outside 1..5 ends in the unrecognized-type
\* fault and yields no region.
C8_UnknownCodeFaults ==
    (lastOp = "from" /\ record.region_type \notin 1..5) =>
        /\ fault = "invalid region type"
        /\ converted = NoRegion
        /\ converted.region_type \notin MemoryRegionType

\* the conversion of a record with type code 0
C8_Witness ==
    /\ lastOp = "from"
    /\ record.region_type = 0
    /\ fault = "invalid region type"

\* C9: a write through the mutable view changes neither next_entry_index nor
\* a slot at or beyond it; only add_region and sort change the view's length.
C9_EditKeepsLengthAndTail ==
    /\ [][lastOp' = "deref_mut" =>
            /\ next_entry_index' = next_entry_index
            /\ \A i \in Slots :
                  i >= next_entry_index => entries'[i] = entries[i]]_vars
    /\ [][lastOp' \notin {"add_region", "sort", "sort_again"} =>
            Len(view') = Len(view)]_vars

\* an edit while a slot beyond the view holds data other than the sentinel
C9_Witness ==
    /\ lastOp = "deref_mut"
    /\ next_entry_index \in 1..(Capacity - 1)
    /\ \E i \in Slots : i >= next_entry_index /\ entries[i] # empty

\* C10: a new catalog has every slot equal to the empty sentinel
\* (start_addr 0, len 0, Reserved) and next_entry_index 0; its view is empty.
C10_NewIsEmpty ==
    lastOp = "new" =>
        /\ DOMAIN entries = 0..(Capacity - 1)
        /\ \A i \in DOMAIN entries :
              entries[i] =
                 [start_addr |-> 0, len |-> 0, region_type |-> "Reserved"]
        /\ next_entry_index = 0
        /\ view = <<>>

\* the catalog right after construction
C10_Witness ==
    /\ lastOp = "new"
    /\ fault = "none"
    /\ next_entry_index = 0
    /\ record = NoRecord

\* C11: after sort(), next_entry_index is the index of the first slot with
\* len == 0 in the reordered array, or the capacity when no slot is empty.
C11_IndexIsFirstEmptySlot ==
    AfterSort =>
        IF \A i \in Slots : entries[i].len # 0
        THEN next_entry_index = Capacity
        ELSE /\ next_entry_index \in Slots
             /\ entries[next_entry_index].len = 0
             /\ \A i \in Slots : i < next_entry_index => entries[i].len # 0

\* a sort of a full array after edits, no slot of which is empty
C11_Witness ==
    /\ lastOp = "sort"
    /\ phase = "other"
    /\ \A i \in Slots : entries[i].len # 0
    /\ \E i, j \in Slots : entries[i].start_addr # entries[j].start_addr

\* C12: in every reachable state every slot at or beyond next_entry_index
\* has len == 0, so no region with len > 0 is hidden from the view, and
\* sort() brings no region into the view that was not in it before.
C12_HiddenSlotsAreEmpty ==
    /\ [](\A i \in Slots : i >= next_entry_index => entries[i].len = 0)
    /\ [][lastOp' \in {"sort", "sort_again"} =>
            BagOfSeq(view') = BagOfSeq(SelectSeq(view, IsNonEmpty))]_vars

\* after a sort, a slot beyond the view holds an emptied region that is not
\* the sentinel
C12_Witness ==
    /\ AfterSort
    /\ next_entry_index \in 1..(Capacity - 1)
    /\ \E i \in Slots :
          /\ i >= next_entry_index
          /\ entries[i].len = 0
          /\ entries[i].start_addr # 0

\* C13: the comparator of sort() is a consistent total order: cmp(r1, r2) is
\* the reverse of cmp(r2, r1), cmp(r, r) is Equal, and the order is
\* transitive, also for regions with len == 0.
C13_ComparatorIsTotalOrder ==
    compared.done =>
        /\ compared.c21 = Reverse(compared.c12)
        /\ compared.c11 = "Equal"
        /\ \A o \in {"Less", "Equal", "Greater"} :
              (compared.c12 = o /\ compared.c23 = o) => compared.c13 = o
====
